---------------------------- MODULE Spec2Model ----------------------------
(***************************************************************************)
(* Model of the chatbot server (src/server/index.js) and of the history   *)
(* loading of its React client (src/unnamed/part_000).                    *)
(*                                                                         *)
(* Text is a sequence of one-character strings, so that lower-casing,      *)
(* the trigger regular expression, trimming, SQL LIKE / ILIKE and the      *)
(* JSON encoding are computed character by character as the code and the   *)
(* database compute them.                                                  *)
(***************************************************************************)
EXTENDS Integers, Sequences, FiniteSets, TLC

(***************************************************************************)
(* Bounds of the model.                                                    *)
(***************************************************************************)
\* chat requests that may be in flight together (one slot each)
MaxTurns == 2
\* server starts (runs of initDb) against the same database
MaxBoots == 3

(***************************************************************************)
(* Characters and strings (JavaScript String, PostgreSQL TEXT).            *)
(***************************************************************************)
UpperChars == <<"A","B","C","D","E","F","G","H","I","J","K","L","M",
                "N","O","P","Q","R","S","T","U","V","W","X","Y","Z">>
LowerChars == <<"a","b","c","d","e","f","g","h","i","j","k","l","m",
                "n","o","p","q","r","s","t","u","v","w","x","y","z">>

LowerChar(c) ==
  IF \E i \in 1..26 : UpperChars[i] = c
  THEN LowerChars[CHOOSE i \in 1..26 : UpperChars[i] = c]
  ELSE c

\* String.prototype.toLowerCase, SQL lower()
toLowerCase(s) == [i \in 1..Len(s) |-> LowerChar(s[i])]

IsSpace(c) == c \in {" ", "\t", "\n", "\r"}

\* String.prototype.trim
trim(s) ==
  LET keep == {i \in 1..Len(s) : ~IsSpace(s[i])}
  IN  IF keep = {} THEN <<>>
      ELSE LET lo == CHOOSE i \in keep : \A j \in keep : i <= j
               hi == CHOOSE i \in keep : \A j \in keep : j <= i
           IN  SubSeq(s, lo, hi)

\* w occurs in s at position i
OccursAt(s, w, i) ==
  /\ i + Len(w) - 1 <= Len(s)
  /\ \A j \in 1..Len(w) : s[i + j - 1] = w[j]

\* plain substring and prefix tests (the spec's words; not used by the code)
Includes(s, w) == \E i \in 1..(Len(s) + 1) : OccursAt(s, w, i)
StartsWith(s, w) == OccursAt(s, w, 1)

(***************************************************************************)
(* The trigger regular expression /search for|find|show|get|query/.        *)
(***************************************************************************)
Triggers == << <<"s","e","a","r","c","h"," ","f","o","r">>, <<"f","i","n","d">>, <<"s","h","o","w">>, <<"g","e","t">>, <<"q","u","e","r","y">> >>

\* the alternative (in the order of the alternation) that matches at i, or 0
TriggerAt(s, i) ==
  IF \E k \in 1..Len(Triggers) : OccursAt(s, Triggers[k], i)
  THEN CHOOSE k \in 1..Len(Triggers) :
         /\ OccursAt(s, Triggers[k], i)
         /\ \A k2 \in 1..(k - 1) : ~OccursAt(s, Triggers[k2], i)
  ELSE 0

\* s.match(re): null or not
MatchTrigger(s) == \E i \in 1..Len(s) : TriggerAt(s, i) # 0

RECURSIVE ReplaceFrom(_, _)
ReplaceFrom(s, i) ==
  IF i > Len(s) THEN <<>>
  ELSE IF TriggerAt(s, i) # 0
       THEN ReplaceFrom(s, i + Len(Triggers[TriggerAt(s, i)]))
       ELSE <<s[i]>> \o ReplaceFrom(s, i + 1)

\* s.replace(re with flag g, ''): one left-to-right pass, matches do not overlap
ReplaceTriggers(s) == ReplaceFrom(s, 1)

\* the search term of findResponse
SearchTerm(message) == trim(ReplaceTriggers(toLowerCase(message)))

(***************************************************************************)
(* PostgreSQL LIKE: % any run of characters, _ any one character,          *)
(* backslash escapes the next pattern character.                           *)
(***************************************************************************)
RECURSIVE LikeAt(_, _, _, _)
LikeAt(s, i, p, j) ==
  IF j > Len(p) THEN i > Len(s)
  ELSE IF p[j] = "%"
       THEN LikeAt(s, i, p, j + 1) \/ (i <= Len(s) /\ LikeAt(s, i + 1, p, j))
  ELSE IF p[j] = "_"
       THEN i <= Len(s) /\ LikeAt(s, i + 1, p, j + 1)
  ELSE IF p[j] = "\\"
       THEN /\ j < Len(p)
            /\ i <= Len(s)
            /\ s[i] = p[j + 1]
            /\ LikeAt(s, i + 1, p, j + 2)
  ELSE i <= Len(s) /\ s[i] = p[j] /\ LikeAt(s, i + 1, p, j + 1)

Like(s, p) == LikeAt(s, 1, p, 1)
ILike(s, p) == Like(toLowerCase(s), toLowerCase(p))

Percent == <<"%">>

(***************************************************************************)
(* Seed rows of initDb.                                                    *)
(***************************************************************************)
SeedUserData ==
  << [category |-> <<"p","e","r","s","o","n","a","l">>,    data_key |-> <<"n","a","m","e">>,     data_value |-> <<"J","o","h","n"," ","D","o","e">>],
     [category |-> <<"p","e","r","s","o","n","a","l">>,    data_key |-> <<"e","m","a","i","l">>,    data_value |-> <<"j","o","h","n","@","e","x","a","m","p","l","e",".","c","o","m">>],
     [category |-> <<"p","r","e","f","e","r","e","n","c","e","s">>, data_key |-> <<"t","h","e","m","e">>,    data_value |-> <<"d","a","r","k">>],
     [category |-> <<"p","r","e","f","e","r","e","n","c","e","s">>, data_key |-> <<"l","a","n","g","u","a","g","e">>, data_value |-> <<"e","n","g","l","i","s","h">>] >>

SeedResponses ==
  << [pattern |-> <<"h","e","l","l","o">>,
      response |-> <<"H","i"," ","t","h","e","r","e","!"," ","I","'","m"," ","y","o","u","r"," ","c","h","a","t","b","o","t"," ","a","s","s","i","s","t","a","n","t","."," ","H","o","w"," ","c","a","n"," ","I"," ","h","e","l","p"," ","y","o","u"," ","t","o","d","a","y","?">>],
     [pattern |-> <<"h","e","l","p">>,
      response |-> <<"I"," ","c","a","n"," ","a","s","s","i","s","t"," ","y","o","u"," ","w","i","t","h"," ","g","e","n","e","r","a","l"," ","q","u","e","s","t","i","o","n","s",","," ","p","r","o","v","i","d","e"," ","i","n","f","o","r","m","a","t","i","o","n",","," ","o","r"," ","j","u","s","t"," ","c","h","a","t","."," ","W","h","a","t"," ","w","o","u","l","d"," ","y","o","u"," ","l","i","k","e"," ","t","o"," ","k","n","o","w","?">>],
     [pattern |-> <<"b","y","e">>,
      response |-> <<"G","o","o","d","b","y","e","!"," ","H","a","v","e"," ","a"," ","g","r","e","a","t"," ","d","a","y","!"," ","F","e","e","l"," ","f","r","e","e"," ","t","o"," ","c","o","m","e"," ","b","a","c","k"," ","i","f"," ","y","o","u"," ","n","e","e","d"," ","a","n","y","t","h","i","n","g",".">>],
     [pattern |-> <<"s","h","o","w"," ","d","a","t","a">>,
      response |-> <<"H","e","r","e","'","s"," ","t","h","e"," ","d","a","t","a"," ","y","o","u"," ","r","e","q","u","e","s","t","e","d",":"," ","{","d","a","t","a","}">>],
     [pattern |-> <<"s","e","a","r","c","h">>,
      response |-> <<"I","'","l","l"," ","h","e","l","p"," ","y","o","u"," ","s","e","a","r","c","h"," ","f","o","r",":"," ","{","q","u","e","r","y","}">>] >>

\* the text findResponse falls back to
Fallback == <<"I","'","m"," ","n","o","t"," ","s","u","r","e"," ","h","o","w"," ","t","o"," ","r","e","s","p","o","n","d"," ","t","o"," ","t","h","a","t","."," ","C","o","u","l","d"," ","y","o","u"," ","p","l","e","a","s","e"," ","r","e","p","h","r","a","s","e"," ","o","r"," ","a","s","k"," ","s","o","m","e","t","h","i","n","g"," ","e","l","s","e","?">>

(***************************************************************************)
(* The statements of initDb on the tables.                                 *)
(* user_data has no unique constraint besides its serial id, so            *)
(* ON CONFLICT DO NOTHING never finds a conflict: every row is inserted.   *)
(***************************************************************************)
RECURSIVE InsertUserData(_, _, _)
InsertUserData(tbl, rows, id) ==
  IF rows = <<>> THEN tbl
  ELSE InsertUserData(
         Append(tbl, [id |-> id,
                      category |-> Head(rows).category,
                      data_key |-> Head(rows).data_key,
                      data_value |-> Head(rows).data_value]),
         Tail(rows), id + 1)

\* INSERT ... ON CONFLICT (pattern) DO UPDATE SET response = EXCLUDED.response
UpsertOne(tbl, row) ==
  IF \E i \in 1..Len(tbl) : tbl[i].pattern = row.pattern
  THEN [i \in 1..Len(tbl) |->
          IF tbl[i].pattern = row.pattern
          THEN [tbl[i] EXCEPT !.response = row.response]
          ELSE tbl[i]]
  ELSE Append(tbl, row)

RECURSIVE UpsertResponses(_, _)
UpsertResponses(tbl, rows) ==
  IF rows = <<>> THEN tbl
  ELSE UpsertResponses(UpsertOne(tbl, Head(rows)), Tail(rows))

(***************************************************************************)
(* The queries of searchUserData and findResponse.                         *)
(***************************************************************************)
\* faulty variant of searchUserData: only data_value is searched
searchUserDataValueOnly(tbl, query) ==
  LET p == toLowerCase(Percent \o query \o Percent)
  IN  SelectSeq(tbl, LAMBDA r : Like(toLowerCase(r.data_value), p))

\* SELECT * FROM user_data WHERE LOWER(category) LIKE LOWER($1) OR ...
\* with $1 = '%' || query || '%'
searchUserData(tbl, query) ==
  LET p == toLowerCase(Percent \o query \o Percent)
  IN  SelectSeq(tbl, LAMBDA r :
        \/ Like(toLowerCase(r.category), p)
        \/ Like(toLowerCase(r.data_key), p)
        \/ Like(toLowerCase(r.data_value), p))

\* faulty variant of ExactRows: the pattern may start anywhere in the message
ExactRowsAnywhere(tbl, message) ==
  SelectSeq(tbl, LAMBDA r :
    Like(toLowerCase(message), Percent \o toLowerCase(r.pattern) \o Percent))

\* WHERE lower($1) LIKE lower(pattern) || '%'
ExactRows(tbl, message) ==
  SelectSeq(tbl, LAMBDA r :
    Like(toLowerCase(toLowerCase(message)), toLowerCase(r.pattern) \o Percent))

\* WHERE $1 ILIKE '%' || pattern || '%'
FuzzyRows(tbl, message) ==
  SelectSeq(tbl, LAMBDA r :
    ILike(toLowerCase(message), Percent \o r.pattern \o Percent))

\* result.rows[0]?.response || "I'm not sure ..." for a row the query returned
ResponseOrFallback(row) ==
  IF row.response = <<>> THEN Fallback ELSE row.response

(***************************************************************************)
(* JSON.stringify of the reply object (the content of a bot message).      *)
(***************************************************************************)
DigitChars == <<"0","1","2","3","4","5","6","7","8","9">>

RECURSIVE Digits(_)
Digits(n) ==
  IF n < 10 THEN <<DigitChars[n + 1]>>
  ELSE Digits(n \div 10) \o <<DigitChars[(n % 10) + 1]>>

EscapeChar(c) ==
  CASE c = "\"" -> <<"\\", "\"">>
    [] c = "\\" -> <<"\\", "\\">>
    [] c = "\n" -> <<"\\", "n">>
    [] c = "\t" -> <<"\\", "t">>
    [] c = "\r" -> <<"\\", "r">>
    [] OTHER -> <<c>>

RECURSIVE Escape(_)
Escape(s) == IF s = <<>> THEN <<>> ELSE EscapeChar(Head(s)) \o Escape(Tail(s))

Quote == <<"\"">>
JsonString(s) == Quote \o Escape(s) \o Quote

\* a user_data row as pg returns it: id, category, data_key, data_value
JsonRow(r) ==
  <<"{","\"","i","d","\"",":">> \o Digits(r.id)
  \o <<",","\"","c","a","t","e","g","o","r","y","\"",":">> \o JsonString(r.category)
  \o <<",","\"","d","a","t","a","_","k","e","y","\"",":">> \o JsonString(r.data_key)
  \o <<",","\"","d","a","t","a","_","v","a","l","u","e","\"",":">> \o JsonString(r.data_value)
  \o <<"}">>

RECURSIVE JsonRows(_)
JsonRows(rows) ==
  IF rows = <<>> THEN <<>>
  ELSE IF Len(rows) = 1 THEN JsonRow(rows[1])
  ELSE JsonRow(Head(rows)) \o <<",">> \o JsonRows(Tail(rows))

\* JSON.stringify(reply), reply = { type, content }
JsonReply(reply) ==
  IF reply.type = "data"
  THEN <<"{","\"","t","y","p","e","\"",":","\"","d","a","t","a","\"",",","\"","c","o","n","t","e","n","t","\"",":","[">> \o JsonRows(reply.rows) \o <<"]","}">>
  ELSE <<"{","\"","t","y","p","e","\"",":","\"","t","e","x","t","\"",",","\"","c","o","n","t","e","n","t","\"",":">> \o JsonString(reply.text) \o <<"}">>

(***************************************************************************)
(* JSON.parse, restricted to: objects, arrays, strings with the escapes    *)
(* \" \\ \/ \n \t \r, integers without fraction or exponent, true, false,  *)
(* null.  A value is a record [t, v] tagged with its JavaScript type.      *)
(***************************************************************************)
JsonNull == [t |-> "lit", v |-> "null"]
Undefined == [t |-> "undef", v |-> <<>>]
ParseFail == [ok |-> FALSE, val |-> JsonNull, next |-> 0]
Parsed(val, next) == [ok |-> TRUE, val |-> val, next |-> next]

IsDigit(c) == \E d \in 1..10 : DigitChars[d] = c
DigitValue(c) == (CHOOSE d \in 1..10 : DigitChars[d] = c) - 1

RECURSIVE SkipWs(_, _)
SkipWs(s, i) ==
  IF i <= Len(s) /\ s[i] \in {" ", "\t", "\n", "\r"} THEN SkipWs(s, i + 1) ELSE i

Unescape(c) ==
  CASE c = "n" -> "\n"
    [] c = "t" -> "\t"
    [] c = "r" -> "\r"
    [] OTHER -> c

\* the characters of a string literal, from just after its opening quote
RECURSIVE ParseChars(_, _, _)
ParseChars(s, i, acc) ==
  IF i > Len(s) THEN ParseFail
  ELSE IF s[i] = "\"" THEN Parsed([t |-> "str", v |-> acc], i + 1)
  ELSE IF s[i] = "\\"
       THEN IF i < Len(s) /\ s[i + 1] \in {"\"", "\\", "/", "n", "t", "r"}
            THEN ParseChars(s, i + 2, Append(acc, Unescape(s[i + 1])))
            ELSE ParseFail
  ELSE IF s[i] \in {"\t", "\n", "\r"} THEN ParseFail
  ELSE ParseChars(s, i + 1, Append(acc, s[i]))

RECURSIVE ParseDigits(_, _, _)
ParseDigits(s, i, n) ==
  IF i <= Len(s) /\ IsDigit(s[i])
  THEN ParseDigits(s, i + 1, 10 * n + DigitValue(s[i]))
  ELSE Parsed([t |-> "num", v |-> n], i)

\* an integer literal whose first digit is at i (no leading zeros)
ParseInt(s, i) ==
  IF i > Len(s) \/ ~IsDigit(s[i]) THEN ParseFail
  ELSE IF s[i] = "0" THEN Parsed([t |-> "num", v |-> 0], i + 1)
  ELSE ParseDigits(s, i, 0)

RECURSIVE ParseValue(_, _)
RECURSIVE ParseMembers(_, _, _)
RECURSIVE ParseElements(_, _, _)

\* the members of an object, from the first character of a member
ParseMembers(s, i, acc) ==
  IF i > Len(s) \/ s[i] # "\"" THEN ParseFail
  ELSE LET key == ParseChars(s, i + 1, <<>>) IN
    IF ~key.ok THEN ParseFail
    ELSE LET c == SkipWs(s, key.next) IN
      IF c > Len(s) \/ s[c] # ":" THEN ParseFail
      ELSE LET val == ParseValue(s, c + 1) IN
        IF ~val.ok THEN ParseFail
        ELSE LET d == SkipWs(s, val.next)
                 more == Append(acc, [k |-> key.val.v, val |-> val.val])
             IN  IF d > Len(s) THEN ParseFail
                 ELSE IF s[d] = "}" THEN Parsed([t |-> "obj", v |-> more], d + 1)
                 ELSE IF s[d] = "," THEN ParseMembers(s, SkipWs(s, d + 1), more)
                 ELSE ParseFail

\* the elements of an array, from the first character of an element
ParseElements(s, i, acc) ==
  LET val == ParseValue(s, i) IN
    IF ~val.ok THEN ParseFail
    ELSE LET d == SkipWs(s, val.next)
             more == Append(acc, val.val)
         IN  IF d > Len(s) THEN ParseFail
             ELSE IF s[d] = "]" THEN Parsed([t |-> "arr", v |-> more], d + 1)
             ELSE IF s[d] = "," THEN ParseElements(s, d + 1, more)
             ELSE ParseFail

ParseValue(s, i) ==
  LET j == SkipWs(s, i) IN
    IF j > Len(s) THEN ParseFail
    ELSE IF s[j] = "\"" THEN ParseChars(s, j + 1, <<>>)
    ELSE IF s[j] = "{"
         THEN LET k == SkipWs(s, j + 1) IN
                IF k <= Len(s) /\ s[k] = "}"
                THEN Parsed([t |-> "obj", v |-> <<>>], k + 1)
                ELSE ParseMembers(s, k, <<>>)
    ELSE IF s[j] = "["
         THEN LET k == SkipWs(s, j + 1) IN
                IF k <= Len(s) /\ s[k] = "]"
                THEN Parsed([t |-> "arr", v |-> <<>>], k + 1)
                ELSE ParseElements(s, k, <<>>)
    ELSE IF s[j] = "-"
         THEN LET n == ParseInt(s, j + 1) IN
                IF n.ok THEN Parsed([t |-> "num", v |-> 0 - n.val.v], n.next)
                ELSE ParseFail
    ELSE IF IsDigit(s[j]) THEN ParseInt(s, j)
    ELSE IF OccursAt(s, <<"t","r","u","e">>, j) THEN Parsed([t |-> "lit", v |-> "true"], j + 4)
    ELSE IF OccursAt(s, <<"f","a","l","s","e">>, j) THEN Parsed([t |-> "lit", v |-> "false"], j + 5)
    ELSE IF OccursAt(s, <<"n","u","l","l">>, j) THEN Parsed(JsonNull, j + 4)
    ELSE ParseFail

\* JSON.parse(text): ok = FALSE is the SyntaxError it throws
JSONparse(s) ==
  LET r == ParseValue(s, 1) IN
    IF r.ok /\ SkipWs(s, r.next) > Len(s)
    THEN [ok |-> TRUE, val |-> r.val]
    ELSE [ok |-> FALSE, val |-> JsonNull]

(***************************************************************************)
(* renderMessageContent and renderDataTable of the client: what a message  *)
(* shows.  kind "p" is a paragraph with a text, "table" a table of rows,   *)
(* "crash" a TypeError (or React's refusal of an object child) in render.  *)
(***************************************************************************)
Paragraph(text) == [kind |-> "p", text |-> text, rows |-> <<>>]
Table(rows) == [kind |-> "table", text |-> <<>>, rows |-> rows]
Crash == [kind |-> "crash", text |-> <<>>, rows |-> <<>>]

\* value.key in JavaScript, for a value that is not null or undefined
GetProp(val, key) ==
  IF val.t = "obj" /\ \E i \in 1..Len(val.v) : val.v[i].k = key
  THEN val.v[CHOOSE i \in 1..Len(val.v) :
               /\ val.v[i].k = key
               /\ \A j \in (i + 1)..Len(val.v) : val.v[j].k # key].val
  ELSE Undefined

IsNullish(val) == val.t = "undef" \/ (val.t = "lit" /\ val.v = "null")

\* a value as the child of a JSX element; <<"crash">> marks an object child
ChildText(val) ==
  CASE val.t = "str" -> val.v
    [] val.t = "num" /\ val.v >= 0 -> Digits(val.v)
    [] val.t = "num" /\ val.v < 0 -> <<"-">> \o Digits(0 - val.v)
    [] OTHER -> <<>>

CellText(item, key) ==
  IF IsNullish(item) THEN <<>> ELSE ChildText(GetProp(item, key))

renderDataTable(data) ==
  IF data.t # "arr" THEN Crash
  ELSE IF \E i \in 1..Len(data.v) :
            \/ IsNullish(data.v[i])
            \/ \E key \in {<<"c","a","t","e","g","o","r","y">>, <<"d","a","t","a","_","k","e","y">>, <<"d","a","t","a","_","v","a","l","u","e">>} :
                 GetProp(data.v[i], key).t \in {"obj", "arr"}
       THEN Crash
  ELSE Table([i \in 1..Len(data.v) |->
                [category |-> CellText(data.v[i], <<"c","a","t","e","g","o","r","y">>),
                 data_key |-> CellText(data.v[i], <<"d","a","t","a","_","k","e","y">>),
                 data_value |-> CellText(data.v[i], <<"d","a","t","a","_","v","a","l","u","e">>)]])

renderMessageContent(content) ==
  IF content.t = "str" THEN Paragraph(content.v)
  ELSE IF IsNullish(content) THEN Crash
  ELSE IF GetProp(content, <<"t","y","p","e">>) = [t |-> "str", v |-> <<"d","a","t","a">>]
       THEN renderDataTable(GetProp(content, <<"c","o","n","t","e","n","t">>))
  ELSE IF GetProp(content, <<"c","o","n","t","e","n","t">>).t \in {"obj", "arr"} THEN Crash
  ELSE Paragraph(ChildText(GetProp(content, <<"c","o","n","t","e","n","t">>)))

(***************************************************************************)
(* State.                                                                  *)
(***************************************************************************)
VARIABLES
  initPc,        \* initDb: "create", "seedData", "seedResponses", "done", "failed"
  boots,         \* server starts so far
  tablesExist,   \* the three tables exist
  user_data,     \* table user_data, in insertion order
  responses,     \* table responses
  messages,      \* table messages, in timestamp order
  dataSeq,       \* next value of user_data.id (SERIAL)
  msgSeq,        \* next value of messages.id (SERIAL; TRUNCATE does not reset it)
  turns,         \* the POST /api/chat requests, one record per slot
  fetch,         \* the GET /api/messages request
  client,        \* the React client's loadChatHistory and its state
  hist           \* history of the run, read by the properties only

vars == <<initPc, boots, tablesExist, user_data, responses, messages, dataSeq,
          msgSeq, turns, fetch, client, hist>>

dbVars == <<tablesExist, user_data, responses, messages, dataSeq, msgSeq>>
bootVars == <<initPc, boots>>

NoBody == [has |-> FALSE, message |-> <<>>]
Body(text) == [has |-> TRUE, message |-> text]
NoReply == [type |-> "none", text |-> <<>>, rows |-> <<>>]
NoParam == [has |-> FALSE, n |-> 0]
Param(n) == [has |-> TRUE, n |-> n]

IdleTurn ==
  [pc |-> "idle", body |-> NoBody, queries |-> <<>>, result |-> <<>>,
   reply |-> NoReply, status |-> 0, error |-> "", detail |-> "",
   sent |-> NoReply, userRow |-> 0, botRow |-> 0]

IdleFetch ==
  [pc |-> "idle", page |-> 0, limit |-> 0, rows |-> <<>>, total |-> 0,
   totalPages |-> 0, status |-> 0, quiet |-> FALSE, clean |-> FALSE]

IdleClient ==
  [pc |-> "idle", loading |-> FALSE, messages |-> <<>>, error |-> ""]

NoHist ==
  [cleared |-> FALSE, posted |-> FALSE, stored |-> FALSE, orphaned |-> FALSE,
   booted |-> FALSE, firstData |-> <<>>, firstResponses |-> <<>>]

Slots == 1..MaxTurns

(***************************************************************************)
(* Store failures: a statement fails when its table does not exist, and    *)
(* any statement may fail for reasons outside the program (the connection  *)
(* is lost, the pool times out): the failing branch of an action is then   *)
(* always enabled.                                                         *)
(***************************************************************************)
(***************************************************************************)
(* initDb (runs unawaited at server start, while the server listens).      *)
(***************************************************************************)
\* CREATE TABLE IF NOT EXISTS messages, responses, user_data (one statement)
InitCreateTables ==
  /\ initPc = "create"
  /\ \/ /\ tablesExist' = TRUE
        /\ initPc' = "seedData"
     \/ /\ initPc' = "failed"
        /\ UNCHANGED tablesExist
  /\ UNCHANGED <<boots, user_data, responses, messages, dataSeq, msgSeq,
                 turns, fetch, client, hist>>

\* INSERT INTO user_data ... ON CONFLICT DO NOTHING
InitSeedUserData ==
  /\ initPc = "seedData"
  /\ \/ /\ user_data' = InsertUserData(user_data, SeedUserData, dataSeq)
        /\ dataSeq' = dataSeq + Len(SeedUserData)
        /\ initPc' = "seedResponses"
     \/ /\ initPc' = "failed"
        /\ UNCHANGED <<user_data, dataSeq>>
  /\ UNCHANGED <<boots, tablesExist, responses, messages, msgSeq,
                 turns, fetch, client, hist>>

\* INSERT INTO responses ... ON CONFLICT (pattern) DO UPDATE
InitSeedResponses ==
  /\ initPc = "seedResponses"
  /\ \/ /\ responses' = UpsertResponses(responses, SeedResponses)
        /\ initPc' = "done"
        /\ hist' = IF hist.booted THEN hist
                   ELSE [hist EXCEPT !.booted = TRUE,
                                     !.firstData = user_data,
                                     !.firstResponses = responses']
     \/ /\ initPc' = "failed"
        /\ UNCHANGED <<responses, hist>>
  /\ UNCHANGED <<boots, tablesExist, user_data, messages, dataSeq, msgSeq,
                 turns, fetch, client>>

\* the server process is started again: initDb() runs again on the same store
Restart ==
  /\ initPc \in {"done", "failed"}
  /\ boots < MaxBoots
  /\ boots' = boots + 1
  /\ initPc' = "create"
  /\ UNCHANGED <<tablesExist, user_data, responses, messages, dataSeq, msgSeq,
                 turns, fetch, client, hist>>

(***************************************************************************)
(* POST /api/chat.                                                         *)
(***************************************************************************)
\* faulty variant of Falsy: only a missing message is rejected
FalsyMissingOnly(body) == ~body.has

\* !message
Falsy(body) == ~body.has \/ body.message = <<>>

\* the handler's catch: 500 { error, message: error.message }
ChatError(turn, detail) ==
  [turn EXCEPT !.pc = "done", !.status = 500,
               !.error = "Internal server error", !.detail = detail]

\* faulty variant of BotSaveRejected: the failure is swallowed and the reply sent
BotSaveSwallowed(turn) ==
  [turn EXCEPT !.pc = "done", !.status = 200, !.sent = turn.reply]

\* saveMessage(JSON.stringify(reply), 'bot') rejected: it rethrows and the
\* handler's catch answers
BotSaveRejected(turn) == ChatError(turn, "Failed to save message")

\* faulty variant of InsertMessage: every row is stored as a bot message
InsertMessageAsBot(tbl, id, content, sender) ==
  Append(tbl, [id |-> id, content |-> content, sender |-> "bot"])

\* INSERT INTO messages (content, sender) VALUES ($1, $2) RETURNING *
InsertMessage(tbl, id, content, sender) ==
  Append(tbl, [id |-> id, content |-> content, sender |-> sender])

\* the statement findResponse issues first for this message
FirstQuery(message) ==
  IF MatchTrigger(toLowerCase(message)) THEN "search" ELSE "exact"

\* { type: 'text', content: result.rows[0]?.response || "I'm not sure ..." }
TextReply(result) ==
  [type |-> "text",
   text |-> IF result = <<>> THEN Fallback ELSE ResponseOrFallback(result[1]),
   rows |-> <<>>]

DataReply(data) == [type |-> "data", text |-> <<>>, rows |-> data]

\* the request arrives: validation, then saveMessage(message, 'user') is issued
PostChat(t, body) ==
  /\ turns[t].pc = "idle"
  /\ IF t = 1 THEN TRUE ELSE turns[t - 1].pc # "idle"
  /\ turns' = [turns EXCEPT ![t] =
       IF Falsy(body)
       THEN [@ EXCEPT !.pc = "done", !.body = body, !.status = 400,
                      !.error = "Message is required"]
       ELSE [@ EXCEPT !.pc = "saveUser", !.body = body]]
  /\ hist' = [hist EXCEPT !.posted = TRUE]
  /\ fetch' = [fetch EXCEPT !.quiet = FALSE]
  /\ UNCHANGED <<initPc, boots, tablesExist, user_data, responses, messages,
                 dataSeq, msgSeq, client>>

\* the store runs the INSERT of the user message
SaveUserMessage(t) ==
  /\ turns[t].pc = "saveUser"
  /\ \/ /\ tablesExist
        /\ messages' = InsertMessage(messages, msgSeq, turns[t].body.message, "user")
        /\ msgSeq' = msgSeq + 1
        /\ turns' = [turns EXCEPT ![t] =
             [@ EXCEPT !.pc = FirstQuery(turns[t].body.message),
                       !.userRow = msgSeq]]
        /\ hist' = [hist EXCEPT !.stored = TRUE]
        /\ fetch' = [fetch EXCEPT !.clean = FALSE]
     \/ /\ turns' = [turns EXCEPT ![t] = ChatError(@, "Failed to save message")]
        /\ UNCHANGED <<messages, msgSeq, hist, fetch>>
  /\ UNCHANGED <<initPc, boots, tablesExist, user_data, responses, dataSeq,
                 client>>

\* the store runs the query of searchUserData
SearchUserData(t) ==
  /\ turns[t].pc = "search"
  /\ \/ /\ tablesExist
        /\ LET data == searchUserData(user_data, SearchTerm(turns[t].body.message))
           IN  turns' = [turns EXCEPT ![t] =
                 IF Len(data) > 0
                 THEN [@ EXCEPT !.pc = "saveBot", !.reply = DataReply(data),
                                !.queries = Append(@, "search")]
                 ELSE [@ EXCEPT !.pc = "exact",
                                !.queries = Append(@, "search")]]
     \/ /\ turns' = [turns EXCEPT ![t] = ChatError(@, "Failed to process response")]
  /\ UNCHANGED <<initPc, boots, tablesExist, user_data, responses, messages,
                 dataSeq, msgSeq, fetch, client, hist>>

\* the store runs exactQuery; LIMIT 1 without ORDER BY returns any matching row
ExactQuery(t) ==
  /\ turns[t].pc = "exact"
  /\ \/ /\ tablesExist
        /\ LET rows == ExactRows(responses, turns[t].body.message) IN
           \/ /\ rows = <<>>
              /\ turns' = [turns EXCEPT ![t] =
                   [@ EXCEPT !.pc = "fuzzy", !.queries = Append(@, "exact")]]
           \/ \E i \in 1..Len(rows) :
                turns' = [turns EXCEPT ![t] =
                  [@ EXCEPT !.pc = "saveBot",
                            !.queries = Append(@, "exact"),
                            !.result = <<[response |-> rows[i].response]>>,
                            !.reply = TextReply(<<[response |-> rows[i].response]>>)]]
     \/ /\ turns' = [turns EXCEPT ![t] = ChatError(@, "Failed to process response")]
  /\ UNCHANGED <<initPc, boots, tablesExist, user_data, responses, messages,
                 dataSeq, msgSeq, fetch, client, hist>>

\* the store runs fuzzyQuery
FuzzyQuery(t) ==
  /\ turns[t].pc = "fuzzy"
  /\ \/ /\ tablesExist
        /\ LET rows == FuzzyRows(responses, turns[t].body.message) IN
           \/ /\ rows = <<>>
              /\ turns' = [turns EXCEPT ![t] =
                   [@ EXCEPT !.pc = "saveBot", !.queries = Append(@, "fuzzy"),
                             !.reply = TextReply(<<>>)]]
           \/ \E i \in 1..Len(rows) :
                turns' = [turns EXCEPT ![t] =
                  [@ EXCEPT !.pc = "saveBot",
                            !.queries = Append(@, "fuzzy"),
                            !.result = <<[response |-> rows[i].response]>>,
                            !.reply = TextReply(<<[response |-> rows[i].response]>>)]]
     \/ /\ turns' = [turns EXCEPT ![t] = ChatError(@, "Failed to process response")]
  /\ UNCHANGED <<initPc, boots, tablesExist, user_data, responses, messages,
                 dataSeq, msgSeq, fetch, client, hist>>

\* the store runs the INSERT of the bot message; then res.json(reply)
SaveBotMessage(t) ==
  /\ turns[t].pc = "saveBot"
  /\ \/ /\ tablesExist
        /\ messages' = InsertMessage(messages, msgSeq, JsonReply(turns[t].reply), "bot")
        /\ msgSeq' = msgSeq + 1
        /\ turns' = [turns EXCEPT ![t] =
             [@ EXCEPT !.pc = "done", !.status = 200, !.sent = turns[t].reply,
                       !.botRow = msgSeq]]
        /\ hist' = [hist EXCEPT !.stored = TRUE]
        /\ fetch' = [fetch EXCEPT !.clean = FALSE]
     \/ /\ turns' = [turns EXCEPT ![t] = BotSaveRejected(@)]
        /\ UNCHANGED <<messages, msgSeq, hist, fetch>>
  /\ UNCHANGED <<initPc, boots, tablesExist, user_data, responses, dataSeq,
                 client>>

(***************************************************************************)
(* GET /api/messages.                                                      *)
(***************************************************************************)
DefaultPage == 1
DefaultLimit == 50

\* parseInt(req.query.x) || d: a missing or non-numeric parameter is NaN
ParseIntOr(p, d) == IF p.has /\ p.n # 0 THEN p.n ELSE d

\* faulty variant of CeilDiv: one page too many when b divides a
CeilDivOffByOne(a, b) == (a \div b) + 1

\* Math.ceil(a / b) for a >= 0, b >= 1
CeilDiv(a, b) == (a + b - 1) \div b

\* ORDER BY timestamp ASC LIMIT limit OFFSET offset
PageOf(tbl, limit, offset) ==
  IF offset >= Len(tbl) \/ limit = 0 THEN <<>>
  ELSE SubSeq(tbl, offset + 1,
              IF offset + limit < Len(tbl) THEN offset + limit ELSE Len(tbl))

Offset(f) == (f.page - 1) * f.limit

\* PostgreSQL rejects a negative LIMIT or OFFSET
PageAccepted(f) == f.limit >= 0 /\ Offset(f) >= 0

\* the request arrives; the first SELECT is issued
FetchStart(page, limit) ==
  /\ fetch.pc \in {"idle", "done"}
  /\ fetch' = [pc |-> "rows",
               page |-> ParseIntOr(page, DefaultPage),
               limit |-> ParseIntOr(limit, DefaultLimit),
               rows |-> <<>>, total |-> 0, totalPages |-> 0, status |-> 0,
               quiet |-> hist.cleared /\ ~hist.posted,
               clean |-> hist.cleared /\ ~hist.stored]

GetMessages(page, limit) ==
  /\ FetchStart(page, limit)
  /\ UNCHANGED <<initPc, boots, tablesExist, user_data, responses, messages,
                 dataSeq, msgSeq, turns, client, hist>>

FetchError(f) == [f EXCEPT !.pc = "done", !.status = 500]

\* the store runs SELECT * FROM messages ORDER BY timestamp ASC LIMIT .. OFFSET ..
FetchRows ==
  /\ fetch.pc = "rows"
  /\ \/ /\ tablesExist
        /\ PageAccepted(fetch)
        /\ fetch' = [fetch EXCEPT !.pc = "count",
                                  !.rows = PageOf(messages, fetch.limit, Offset(fetch))]
     \/ /\ fetch' = FetchError(fetch)
  /\ UNCHANGED <<initPc, boots, tablesExist, user_data, responses, messages,
                 dataSeq, msgSeq, turns, client, hist>>

\* the store runs SELECT COUNT(*) FROM messages; then res.json
FetchCount ==
  /\ fetch.pc = "count"
  /\ \/ /\ fetch' = [fetch EXCEPT !.pc = "done", !.status = 200,
                                  !.total = Len(messages),
                                  !.totalPages = CeilDiv(Len(messages), fetch.limit)]
     \/ /\ fetch' = FetchError(fetch)
  /\ UNCHANGED <<initPc, boots, tablesExist, user_data, responses, messages,
                 dataSeq, msgSeq, turns, client, hist>>

(***************************************************************************)
(* DELETE /api/messages.                                                   *)
(***************************************************************************)
\* TRUNCATE TABLE messages
Truncate(tbl) == <<>>

\* a chat turn whose user message is stored and whose bot message is not yet
BetweenSaves(t) == turns[t].pc \in {"search", "exact", "fuzzy", "saveBot"}

DeleteMessages ==
  /\ \/ /\ tablesExist
        /\ messages' = Truncate(messages)
        /\ hist' = [hist EXCEPT !.cleared = TRUE, !.posted = FALSE,
                                !.stored = FALSE,
                                !.orphaned = @ \/ \E t \in Slots : BetweenSaves(t)]
     \/ UNCHANGED <<messages, hist>>
  /\ UNCHANGED <<initPc, boots, tablesExist, user_data, responses, dataSeq,
                 msgSeq, turns, fetch, client>>

(***************************************************************************)
(* The client: loadChatHistory (run once, when the component mounts).      *)
(***************************************************************************)
\* setLoading(true); axios.get(BACKEND_URL + '/api/messages')
loadChatHistory ==
  /\ client.pc = "idle"
  /\ FetchStart(NoParam, NoParam)
  /\ client' = [client EXCEPT !.pc = "waiting", !.loading = TRUE]
  /\ UNCHANGED <<initPc, boots, tablesExist, user_data, responses, messages,
                 dataSeq, msgSeq, turns, hist>>

\* every msg.content is a string (TEXT), so every one goes through JSON.parse
AllParse(rows) == \A i \in 1..Len(rows) : JSONparse(rows[i].content).ok

MapParsed(rows) ==
  [i \in 1..Len(rows) |->
     [id |-> rows[i].id, sender |-> rows[i].sender,
      content |-> JSONparse(rows[i].content).val]]

\* the response arrives: the map over response.data.messages, catch, finally
LoadSettled ==
  /\ client.pc = "waiting"
  /\ fetch.pc = "done"
  /\ \/ /\ fetch.status = 200
        /\ AllParse(fetch.rows)
        /\ client' = [client EXCEPT !.pc = "loaded", !.loading = FALSE,
                                    !.messages = MapParsed(fetch.rows)]
     \/ /\ ~(fetch.status = 200 /\ AllParse(fetch.rows))
        /\ client' = [client EXCEPT !.pc = "loaded", !.loading = FALSE,
                                    !.error = "Failed to load chat history"]
  /\ UNCHANGED <<initPc, boots, tablesExist, user_data, responses, messages,
                 dataSeq, msgSeq, turns, fetch, hist>>

(***************************************************************************)
(* Stores the server may find when it starts.                              *)
(***************************************************************************)
\* rows left in table responses by earlier versions of the seed
LegacyHello == [pattern |-> <<"h","e","l","l","o">>, response |-> <<"H","e","l","l","o","!">>]
LegacyHe == [pattern |-> <<"h","e">>, response |-> <<"H","e"," ","w","h","o","?">>]
LegacyHi == [pattern |-> <<"h","i">>, response |-> <<>>]

LegacyTables ==
  { <<>>, <<LegacyHi>>, <<LegacyHello, LegacyHe>>, <<LegacyHe, LegacyHi, LegacyHello>> }

RECURSIVE SeededData(_, _, _)
SeededData(tbl, id, k) ==
  IF k = 0 THEN tbl
  ELSE SeededData(InsertUserData(tbl, SeedUserData, id), id + Len(SeedUserData), k - 1)

StoreIs(exist, data, resp) ==
  /\ tablesExist = exist
  /\ user_data = data
  /\ dataSeq = Len(data) + 1
  /\ responses = resp
  /\ messages = <<>>
  /\ msgSeq = 1

\* a database on which nothing has run yet
FreshStore == StoreIs(FALSE, <<>>, <<>>)

\* a database on which initDb has completed k times, over legacy rows
BootedStore(k, legacy) ==
  StoreIs(TRUE, SeededData(<<>>, 1, k), UpsertResponses(legacy, SeedResponses))

\* a database whose tables exist and hold only legacy rows
LegacyStore(legacy) == StoreIs(TRUE, <<>>, legacy)

Quiet ==
  /\ turns = [t \in Slots |-> IdleTurn]
  /\ fetch = IdleFetch
  /\ client = IdleClient
  /\ hist = NoHist

(***************************************************************************)
(* Inputs.                                                                 *)
(***************************************************************************)
ChatBodies ==
  { NoBody, Body(<<>>), Body(<<"g","e","t"," ","z">>) }

ResolveBodies ==
  { Body(<<"h","e","l","l","o">>), Body(<<"H","e","l","l","o"," ","t","h","e","r","e">>), Body(<<"s","a","y"," ","h","e","l","l","o">>), Body(<<"x","y","z">>),
    Body(<<"s","e","a","r","c","h"," ","f","o","r"," ","d","a","r","k">>), Body(<<"s","h","o","w"," ","d","a","t","a">>), Body(<<"s","h","o","w">>),
    Body(<<"g","e","t"," ","%">>), Body(<<"f","i","n","d"," ","J","_","h","n">>), Body(<<"p","l","e","a","s","e"," ","s","h","o","w"," ","m","e"," ","t","h","e"," ","n","a","m","e">>),
    Body(<<"g","e","t"," ","N","A","M","E">>), Body(<<"b","y","e"," ","h","e","l","p">>), Body(<<"h","i"," ","t","h","e","r","e">>),
    Body(<<"q","u","e","r","y"," ","p","r","e","f","e","r","e","n","c","e","s">>), Body(<<>>), NoBody }

StartBodies ==
  { Body(<<"h","e","l","l","o">>), Body(<<"s","h","o","w"," ","m","e"," ","h","e","l","l","o">>) }

ClientBodies ==
  { Body(<<"h","e","l","l","o">>), Body(<<"g","e","t"," ","n","a","m","e">>), Body(<<"4","2">>) }

\* page and limit of a GET /api/messages
Queries == { <<NoParam, NoParam>>, <<Param(2), Param(1)>>, <<NoParam, Param(-1)>> }

(***************************************************************************)
(* Spec: the running server: concurrent chat turns and history clears on   *)
(* a bootstrapped store.                                                   *)
(***************************************************************************)
Init ==
  /\ initPc = "done"
  /\ boots = 1
  /\ BootedStore(1, <<>>)
  /\ Quiet

Next ==
  \/ \E t \in Slots, body \in ChatBodies : PostChat(t, body)
  \/ \E t \in Slots : SaveUserMessage(t)
  \/ \E t \in Slots : SearchUserData(t)
  \/ \E t \in Slots : ExactQuery(t)
  \/ \E t \in Slots : FuzzyQuery(t)
  \/ \E t \in Slots : SaveBotMessage(t)
  \/ DeleteMessages

Spec == Init /\ [][Next]_vars

(***************************************************************************)
(* SpecHistory: history fetches and clears while a chat turn is in flight. *)
(***************************************************************************)
NextHistory ==
  \/ \E body \in ChatBodies : PostChat(1, body)
  \/ SaveUserMessage(1)
  \/ SearchUserData(1)
  \/ ExactQuery(1)
  \/ FuzzyQuery(1)
  \/ SaveBotMessage(1)
  \/ \E q \in Queries : GetMessages(q[1], q[2])
  \/ FetchRows
  \/ FetchCount
  \/ DeleteMessages

SpecHistory == Init /\ [][NextHistory]_vars

(***************************************************************************)
(* SpecStart: the server starts on a fresh or a used store; initDb() is    *)
(* not awaited, so requests are handled while it runs.                     *)
(***************************************************************************)
InitStart ==
  /\ initPc = "create"
  /\ boots = 1
  /\ FreshStore \/ BootedStore(1, <<>>)
  /\ Quiet

NextStart ==
  \/ InitCreateTables
  \/ InitSeedUserData
  \/ InitSeedResponses
  \/ \E body \in StartBodies : PostChat(1, body)
  \/ SaveUserMessage(1)
  \/ SearchUserData(1)
  \/ ExactQuery(1)
  \/ FuzzyQuery(1)
  \/ SaveBotMessage(1)
  \/ GetMessages(NoParam, NoParam)
  \/ FetchRows
  \/ FetchCount
  \/ DeleteMessages

SpecStart == InitStart /\ [][NextStart]_vars

(***************************************************************************)
(* SpecResolve: findResponse on a bootstrapped store, one turn.            *)
(***************************************************************************)
InitResolve ==
  /\ initPc = "done"
  /\ boots = 1
  /\ \E k \in 1..MaxBoots, legacy \in LegacyTables : BootedStore(k, legacy)
  /\ Quiet

NextResolve ==
  \/ \E body \in ResolveBodies : PostChat(1, body)
  \/ SaveUserMessage(1)
  \/ SearchUserData(1)
  \/ ExactQuery(1)
  \/ FuzzyQuery(1)
  \/ SaveBotMessage(1)

SpecResolve == InitResolve /\ [][NextResolve]_vars

(***************************************************************************)
(* SpecBoot: the server started again and again on the same store.         *)
(***************************************************************************)
InitBoot ==
  /\ initPc = "create"
  /\ boots = 1
  /\ FreshStore \/ \E legacy \in LegacyTables : LegacyStore(legacy)
  /\ Quiet

NextBoot ==
  \/ InitCreateTables
  \/ InitSeedUserData
  \/ InitSeedResponses
  \/ Restart

SpecBoot == InitBoot /\ [][NextBoot]_vars

(***************************************************************************)
(* SpecClient: chat turns, then the client loads the history.              *)
(***************************************************************************)
InitClient ==
  /\ initPc = "done"
  /\ boots = 1
  /\ BootedStore(1, <<>>)
  /\ Quiet

NextClient ==
  \/ \E t \in Slots, body \in ClientBodies : PostChat(t, body)
  \/ \E t \in Slots : SaveUserMessage(t)
  \/ \E t \in Slots : SearchUserData(t)
  \/ \E t \in Slots : ExactQuery(t)
  \/ \E t \in Slots : FuzzyQuery(t)
  \/ \E t \in Slots : SaveBotMessage(t)
  \/ loadChatHistory
  \/ FetchRows
  \/ FetchCount
  \/ LoadSettled

SpecClient == InitClient /\ [][NextClient]_vars

(***************************************************************************)
(* Properties.                                                             *)
(***************************************************************************)
Count(sender) == Len(SelectSeq(messages, LAMBDA r : r.sender = sender))

\* the handler of slot t has answered
Answered(t) == turns[t].pc = "done"

\* slot t computed its reply, answered, and its bot message is not stored:
\* the INSERT of the bot message failed
BotSaveFailed(t) ==
  /\ Answered(t)
  /\ turns[t].reply.type # "none"
  /\ turns[t].botRow = 0

\* C1 as claimed: when the user message was persisted and the answer resolved
\* but persisting the bot message fails, the caller still receives the
\* success reply computed by the resolver.
C1_ReplyDespiteBotSaveFailure ==
  \A t \in Slots :
    BotSaveFailed(t) => turns[t].status = 200 /\ turns[t].sent = turns[t].reply

\* C1 as amended: in that case the failure is not swallowed: the caller
\* receives 500 { error: 'Internal server error', message: 'Failed to save
\* message' } and no reply, while the user message stays stored; the reply is
\* sent exactly when the bot message was persisted.
C1_BotSaveFailureAnswers500 ==
  \A t \in Slots :
    /\ BotSaveFailed(t) =>
         /\ turns[t].status = 500
         /\ turns[t].error = "Internal server error"
         /\ turns[t].detail = "Failed to save message"
         /\ turns[t].sent = NoReply
         /\ turns[t].userRow # 0
    /\ (Answered(t) /\ turns[t].status = 200) =>
         /\ turns[t].botRow # 0
         /\ turns[t].sent = turns[t].reply

C1_Witness == \E t \in Slots : BotSaveFailed(t)

\* C2: a chat turn whose message is empty or missing is answered 400 without
\* touching the store (no user row, no bot row, no resolver query), and every
\* stored Message has a non-empty content and a sender in {user, bot}.
C2_EmptyRejected ==
  /\ \A t \in Slots :
       (turns[t].pc # "idle"
          /\ (~turns[t].body.has \/ Len(turns[t].body.message) = 0)) =>
         /\ Answered(t)
         /\ turns[t].status = 400
         /\ turns[t].userRow = 0
         /\ turns[t].botRow = 0
         /\ turns[t].queries = <<>>
         /\ turns[t].reply = NoReply
  /\ \A i \in 1..Len(messages) :
       /\ Len(messages[i].content) > 0
       /\ messages[i].sender \in {"user", "bot"}

C2_Witness ==
  /\ \E t \in Slots : turns[t].status = 400 /\ turns[t].body = Body(<<>>)
  /\ Count("user") > 0
  /\ Count("bot") > 0

\* the spec's words for the trigger test and the fact search
ContainsTrigger(s) == \E k \in 1..Len(Triggers) : Includes(s, Triggers[k])

FactContains(fact, term) ==
  \/ Includes(toLowerCase(fact.category), term)
  \/ Includes(toLowerCase(fact.data_key), term)
  \/ Includes(toLowerCase(fact.data_value), term)

\* C3: for a message containing a trigger keyword whose search term is a
\* case-insensitive substring of the category, key or value of some Fact,
\* findResponse returns a data answer holding exactly the Facts that pass
\* that substring test, in store order, and runs no pattern query.
C3_DataAnswer ==
  LET turn == turns[1]
      term == SearchTerm(turn.body.message)
  IN  (/\ turn.queries # <<>>
       /\ ContainsTrigger(toLowerCase(turn.body.message))
       /\ \E i \in 1..Len(user_data) : FactContains(user_data[i], term)) =>
        /\ turn.reply.type = "data"
        /\ turn.reply.rows = SelectSeq(user_data, LAMBDA f : FactContains(f, term))
        /\ turn.queries = <<"search">>

C3_Witness ==
  /\ turns[1].pc = "done"
  /\ turns[1].status = 200
  /\ turns[1].sent.type = "data"
  /\ Len(turns[1].sent.rows) > 0
  /\ Len(turns[1].sent.rows) < Len(user_data)
  /\ \E i \in 1..Len(user_data) :
       FactContains(user_data[i], SearchTerm(turns[1].body.message))

\* findResponse has returned an answer for slot 1
Resolved == turns[1].reply.type # "none"

PrefixPatterns(message) ==
  {i \in 1..Len(responses) : StartsWith(toLowerCase(message), responses[i].pattern)}

\* C4 as claimed: whenever the lowercased message starts with some
\* ReplyPattern's pattern, findResponse returns the response of a pattern
\* that is a prefix of the message.
C4_PrefixPassWins ==
  (Resolved /\ PrefixPatterns(turns[1].body.message) # {}) =>
    /\ turns[1].reply.type = "text"
    /\ \E i \in PrefixPatterns(turns[1].body.message) :
         turns[1].reply.text = responses[i].response

\* C4 as amended: whenever the lowercased message starts with some pattern
\* and findResponse does not return a data answer (the fact search comes
\* first), the text answer is taken from the prefix pass: it is the response
\* of a pattern that is a prefix of the message (the fallback text if that
\* response is the empty string), and the containment pass is not run.
C4_PrefixPassWinsUnlessData ==
  (/\ Resolved
   /\ turns[1].reply.type # "data"
   /\ PrefixPatterns(turns[1].body.message) # {}) =>
    /\ turns[1].reply.type = "text"
    /\ \E i \in PrefixPatterns(turns[1].body.message) :
         turns[1].reply.text =
           IF responses[i].response = <<>> THEN Fallback ELSE responses[i].response
    /\ \A q \in 1..Len(turns[1].queries) : turns[1].queries[q] # "fuzzy"

\* the prefix pass answers although another pattern occurs later in the message
C4_Witness ==
  /\ turns[1].pc = "done"
  /\ turns[1].sent.type = "text"
  /\ \E i \in PrefixPatterns(turns[1].body.message) :
       /\ responses[i].response # <<>>
       /\ turns[1].sent.text = responses[i].response
  /\ \E j \in 1..Len(responses) :
       /\ j \notin PrefixPatterns(turns[1].body.message)
       /\ Includes(toLowerCase(turns[1].body.message), responses[j].pattern)

\* C5: the text answer is the fallback text only when neither pass found a
\* row; when a pass found a row, the answer is that row's response verbatim.
C5_VerbatimOrFallback ==
  (Resolved /\ turns[1].reply.type = "text") =>
    /\ turns[1].result # <<>> => turns[1].reply.text = turns[1].result[1].response
    /\ turns[1].reply.text = Fallback => turns[1].result = <<>>

\* a Fact without its serial id
FactOf(row) ==
  [category |-> row.category, data_key |-> row.data_key, data_value |-> row.data_value]

Facts(tbl) == [i \in 1..Len(tbl) |-> FactOf(tbl[i])]

\* C6: every completed run of initDb leaves the tables as its first completed
\* run left them: the same Fact rows, and one ReplyPattern row per pattern,
\* with the seed's response for the seeded patterns.
C6_InitDbIdempotent ==
  (initPc = "done" /\ hist.booted) =>
    /\ tablesExist
    /\ Facts(user_data) = Facts(hist.firstData)
    /\ responses = hist.firstResponses
    /\ \A i, j \in 1..Len(responses) :
         responses[i].pattern = responses[j].pattern => i = j
    /\ \A k \in 1..Len(SeedResponses) :
         \E i \in 1..Len(responses) : responses[i] = SeedResponses[k]

NoMessages(f) == f.rows = <<>> /\ f.total = 0 /\ f.totalPages = 0

\* C7 as claimed: after a successful history clear, the next history fetch,
\* with no new chat turn submitted in between, returns zero Messages,
\* totalMessages = 0 and totalPages = 0.
C7_EmptyAfterClear ==
  (fetch.pc = "done" /\ fetch.status = 200 /\ fetch.quiet) => NoMessages(fetch)

\* C7 as amended: after a successful history clear, a history fetch with no
\* Message stored between the clear and the fetch's answer (by a new chat
\* turn or by one already in flight when the clear ran) returns zero
\* Messages, totalMessages = 0 and totalPages = 0.
C7_EmptyAfterClearNoStore ==
  (fetch.pc = "done" /\ fetch.status = 200 /\ fetch.clean) => NoMessages(fetch)

C7_Witness ==
  /\ fetch.pc = "done"
  /\ fetch.status = 200
  /\ fetch.clean
  /\ turns[1].botRow # 0
  /\ NoMessages(fetch)

\* what the reply of a turn shows when rendered
ReplyDisplay(reply) ==
  IF reply.type = "data" THEN Table(Facts(reply.rows)) ELSE Paragraph(reply.text)

\* what the claim expects the client to show for a fetched row
ExpectedDisplay(row) ==
  IF row.sender = "user" THEN Paragraph(row.content)
  ELSE ReplyDisplay(turns[CHOOSE t \in Slots : turns[t].botRow = row.id].sent)

\* C8: for a store filled by successful chat turns, loadChatHistory ends
\* without error and shows every fetched Message in order: a user Message
\* with the text typed, a bot Message with the reply returned for its turn.
C8_HistoryRoundTrip ==
  (/\ client.pc = "loaded"
   /\ fetch.status = 200
   /\ \A t \in Slots : turns[t].pc = "idle" \/ (Answered(t) /\ turns[t].status = 200)) =>
    /\ client.error = ""
    /\ Len(client.messages) = Len(fetch.rows)
    /\ \A i \in 1..Len(fetch.rows) :
         /\ client.messages[i].id = fetch.rows[i].id
         /\ renderMessageContent(client.messages[i].content)
              = ExpectedDisplay(fetch.rows[i])

\* C9 as claimed: in every reachable state the store holds at most as many
\* bot Messages as user Messages.
C9_BotsAtMostUsers == Count("bot") <= Count("user")

\* C9 as amended: a turn's bot Message is stored only after its user Message;
\* and as long as no history clear has run while a chat turn was between its
\* two persists, the store holds at most as many bot as user Messages.
C9_BotsAtMostUsersUnlessCleared ==
  /\ \A t \in Slots :
       turns[t].botRow # 0 => turns[t].userRow # 0 /\ turns[t].userRow < turns[t].botRow
  /\ ~hist.orphaned => Count("bot") <= Count("user")

\* a clear removed the two Messages of one turn while no turn was between
\* its persists, and a later turn stored its own two
C9_Witness ==
  /\ ~hist.orphaned
  /\ hist.cleared
  /\ turns[1].botRow # 0
  /\ turns[2].botRow # 0
  /\ Count("user") = 1
  /\ Count("bot") = 1

\* initDb has created the tables and seeded Facts and ReplyPatterns
StoreSeeded ==
  /\ tablesExist
  /\ \A k \in 1..Len(SeedUserData) :
       \E i \in 1..Len(user_data) : FactOf(user_data[i]) = SeedUserData[k]
  /\ \A k \in 1..Len(SeedResponses) :
       \E i \in 1..Len(responses) : responses[i] = SeedResponses[k]

\* C10: a request is answered only on a store that initDb has bootstrapped.
C10_ServedAfterBootstrap ==
  /\ (Answered(1) /\ turns[1].status # 400) => StoreSeeded
  /\ fetch.pc = "done" => StoreSeeded

=============================================================================
